---- MODULE Spec2Model ----
(***************************************************************************)
(* notify-bot-pr-event-action: main/run (the orchestrator) and the three   *)
(* pure functions collectUsersToNotify, filterUsers and formatComment of   *)
(* src/run.ts.                                                             *)
(*                                                                         *)
(* Strings are TLA+ strings (TLC evaluates Len, \o and SubSeq on them), so *)
(* startsWith, includes and the template literals are computed character   *)
(* by character.  A JavaScript Set<string> that is iterated (users) is a   *)
(* duplicate-free sequence in insertion order; one that is only queried    *)
(* with has() (machineUsers) is a set.  A nullable value is None (<<>>)    *)
(* or Some(v) (<<v>>).                                                     *)
(***************************************************************************)
EXTENDS Integers, Sequences, FiniteSets

VARIABLES
    pc,              \* position of main/run: which await it is suspended at
    env,             \* the action's inputs and the trigger (core.getMultilineInput, context)
    server,          \* the pull request as the API holds it: all commits, reviews, assignees
    input,           \* lib.Input built by main
    pr,              \* run's `pr`: None until getPullRequest has resolved
    commits,         \* run's local `commits` / collectUsersToNotify's argument
    reviews,         \* run's local `reviews` / collectUsersToNotify's argument
    assignees,       \* pr.assignees.nodes / collectUsersToNotify's argument
    users,           \* the Set<string> returned by collectUsersToNotify
    filteredUsers,   \* the string[] returned by filterUsers
    message,         \* the string returned by formatComment
    formatCalls,     \* number of formatComment invocations made by run
    ioLog,           \* the I/O calls of github.* and their outcomes, in order
    posted           \* the comments the API has accepted

vars == <<pc, env, server, input, pr, commits, reviews, assignees, users,
          filteredUsers, message, formatCalls, ioLog, posted>>

-----------------------------------------------------------------------------
(* Bounds of the model *)

MaxUsers == 3
MaxLines == 2
MaxRecords == 3
MaxPrRecords == 4
PageSize == 1

-----------------------------------------------------------------------------
(* Values *)

None == <<>>
Some(v) == <<v>>
IsPresent(o) == o # None
Coalesce(o, default) == IF o # None THEN o[1] ELSE default

SeqsUpTo(S, n) == UNION {[1..k -> S] : k \in 0..n}
Range(s) == {s[i] : i \in 1..Len(s)}
Min(a, b) == IF a < b THEN a ELSE b

User(login) == [login |-> login, resourcePath |-> "/" \o login]
PullRequestCommit(committer, authors) ==
    [commit |-> [committer |-> [user |-> committer],
                 authors |-> [nodes |-> [i \in 1..Len(authors) |-> [user |-> authors[i]]]]]]
Review(login, state) == [state |-> state, author |-> User(login)]

-----------------------------------------------------------------------------
(* String.prototype.startsWith / includes, Array.prototype.join *)

StartsWith(s, prefix) ==
    Len(s) >= Len(prefix) /\ SubSeq(s, 1, Len(prefix)) = prefix

Includes(s, sub) ==
    \E i \in 1..(Len(s) - Len(sub) + 1) : SubSeq(s, i, i + Len(sub) - 1) = sub

RECURSIVE Join(_, _)
Join(strs, sep) ==
    IF strs = <<>> THEN ""
    ELSE IF Len(strs) = 1 THEN strs[1]
    ELSE strs[1] \o sep \o Join(Tail(strs), sep)

\* mutant: an array push instead of Set.add
SetAdd_NoDedup(set, x) == Append(set, x)

(* Set.prototype.add on an insertion-ordered set *)
SetAdd(set, x) == IF x \in Range(set) THEN set ELSE Append(set, x)

-----------------------------------------------------------------------------
(* collectUsersToNotify *)

RECURSIVE AddAuthors(_, _)
AddAuthors(set, authors) ==
    IF authors = <<>> THEN set
    ELSE AddAuthors(IF IsPresent(Head(authors).user)
                    THEN SetAdd(set, Head(authors).user[1].login)
                    ELSE set,
                    Tail(authors))

AddCommit(set, node) ==
    AddAuthors(IF IsPresent(node.commit.committer.user)
               THEN SetAdd(set, node.commit.committer.user[1].login)
               ELSE set,
               node.commit.authors.nodes)

RECURSIVE AddCommits(_, _)
AddCommits(set, nodes) ==
    IF nodes = <<>> THEN set
    ELSE AddCommits(AddCommit(set, Head(nodes)), Tail(nodes))

\* mutant: the eventName test dropped
ApproverGate_AnyEvent(in) == in.eventAction = "closed"

ApproverGate(in) == in.eventName = "pull_request" /\ in.eventAction = "closed"

IsApproved(review) == review.state = "APPROVED"

RECURSIVE AddApprovers(_, _)
AddApprovers(set, revs) ==
    IF revs = <<>> THEN set
    ELSE AddApprovers(IF IsApproved(Head(revs))
                      THEN SetAdd(set, Head(revs).author.login)
                      ELSE set,
                      Tail(revs))

RECURSIVE AddAssignees(_, _)
AddAssignees(set, as) ==
    IF as = <<>> THEN set
    ELSE AddAssignees(SetAdd(set, Head(as).login), Tail(as))

collectUsersToNotify(in, cs, rs, as) ==
    LET afterCommits == AddCommits(<<>>, cs)
        afterReviews == IF ApproverGate(in) THEN AddApprovers(afterCommits, rs)
                        ELSE afterCommits
    IN  AddAssignees(afterReviews, as)

-----------------------------------------------------------------------------
(* filterUsers *)

\* mutant: endsWith("[bot]") instead of includes("[bot]")
KeepUser_BotSuffix(login, actor, machineUsers) ==
    IF login = actor THEN FALSE
    ELSE IF Len(login) >= Len("[bot]")
            /\ SubSeq(login, Len(login) - Len("[bot]") + 1, Len(login)) = "[bot]" THEN FALSE
    ELSE IF login \in machineUsers THEN FALSE
    ELSE TRUE

\* mutant: the actor test dropped
KeepUser_NoActor(login, actor, machineUsers) ==
    IF Includes(login, "[bot]") THEN FALSE
    ELSE IF login \in machineUsers THEN FALSE
    ELSE TRUE

KeepUser(login, actor, machineUsers) ==
    IF login = actor THEN FALSE
    ELSE IF Includes(login, "[bot]") THEN FALSE
    ELSE IF login \in machineUsers THEN FALSE
    ELSE TRUE

RECURSIVE ArrayFilter(_, _, _)
ArrayFilter(arr, actor, machineUsers) ==
    IF arr = <<>> THEN <<>>
    ELSE (IF KeepUser(Head(arr), actor, machineUsers) THEN <<Head(arr)>> ELSE <<>>)
         \o ArrayFilter(Tail(arr), actor, machineUsers)

filterUsers(set, actor, machineUsers) == ArrayFilter(set, actor, machineUsers)

-----------------------------------------------------------------------------
(* formatComment *)

Mention(u) == "@" \o u

ReviewSentence(reviewState) ==
    CASE reviewState = "approved" -> "The pull request was approved."
      [] reviewState = "changes_requested" -> "Changes were requested."
      [] reviewState = "commented" -> "A comment was left on the pull request."
      [] OTHER -> "A review was submitted."

DefaultSentence(in) == "Event: " \o in.eventName \o "/" \o in.eventAction

\* mutant: the closed test evaluated before the merged test
ActionSentence_ClosedFirst(in) ==
    IF in.eventName = "pull_request"
    THEN IF in.eventAction = "closed" THEN "Closed the pull request."
         ELSE IF in.prMerged THEN "Merged the pull request."
         ELSE "Pull request " \o in.eventAction \o "."
    ELSE IF in.eventName = "pull_request_review"
    THEN ReviewSentence(in.reviewState)
    ELSE DefaultSentence(in)

ActionSentence(in) ==
    IF in.eventName = "pull_request"
    THEN IF in.prMerged THEN "Merged the pull request."
         ELSE IF in.eventAction = "closed" THEN "Closed the pull request."
         ELSE "Pull request " \o in.eventAction \o "."
    ELSE IF in.eventName = "pull_request_review"
    THEN ReviewSentence(in.reviewState)
    ELSE DefaultSentence(in)

formatComment(us, in) ==
    LET mentions == Join([i \in 1..Len(us) |-> Mention(us[i])], " ")
    IN  mentions \o " " \o ActionSentence(in)

-----------------------------------------------------------------------------
(* The GitHub API behind ./github: getPullRequest returns the first page of *)
(* commits and of reviews (nodes, hasNextPage, endCursor) and the           *)
(* assignees; listCommits and listReviews return the records after a        *)
(* cursor, fetching page after page while more pages exist.  A cursor is    *)
(* the position of the last record returned; endCursor is null exactly when *)
(* the page has no record.                                                  *)

Connection(all, after) ==
    LET nodes == SubSeq(all, after + 1, Min(after + PageSize, Len(all)))
    IN  [nodes |-> nodes,
         pageInfo |-> [hasNextPage |-> after + PageSize < Len(all),
                       endCursor |-> IF nodes = <<>> THEN None
                                     ELSE Some(after + Len(nodes))]]

getPullRequest(srv) ==
    [repository |-> [pullRequest |->
        [commits |-> Connection(srv.commits, 0),
         reviews |-> Connection(srv.reviews, 0),
         assignees |-> [nodes |-> srv.assignees]]]]

RECURSIVE ListPages(_, _)
ListPages(all, cursor) ==
    LET page == Connection(all, cursor)
    IN  page.nodes \o (IF page.pageInfo.hasNextPage
                       THEN ListPages(all, page.pageInfo.endCursor[1])
                       ELSE <<>>)

listCommits(srv, cursor) == ListPages(srv.commits, cursor)
listReviews(srv, cursor) == ListPages(srv.reviews, cursor)

Call(op, arg) == [ev |-> "call", op |-> op, arg |-> arg]
Resolved(op) == [ev |-> "ok", op |-> op]
Rejected(op) == [ev |-> "fail", op |-> op]

-----------------------------------------------------------------------------
(* main *)

\* mutant: includes("#") instead of startsWith("#")
ParseMachineUsers_Includes(machineUsersRaw) ==
    {machineUsersRaw[i] : i \in {j \in 1..Len(machineUsersRaw) :
                                   ~Includes(machineUsersRaw[j], "#")}}

ParseMachineUsers(machineUsersRaw) ==
    {machineUsersRaw[i] : i \in {j \in 1..Len(machineUsersRaw) :
                                   ~StartsWith(machineUsersRaw[j], "#")}}

BuildInput(e) ==
    [githubToken |-> e.github_token,
     repositoryOwner |-> e.repo.owner,
     repositoryName |-> e.repo.repo,
     pullRequestNumber |-> IF IsPresent(e.payload.pull_request)
                           THEN e.payload.pull_request[1].number ELSE 0,
     machineUsers |-> ParseMachineUsers(e.machine_users),
     actor |-> e.actor,
     eventName |-> e.eventName,
     eventAction |-> Coalesce(e.payload.action, ""),
     prMerged |-> IF IsPresent(e.payload.pull_request)
                  THEN Coalesce(e.payload.pull_request[1].merged, FALSE)
                  ELSE FALSE,
     reviewState |-> IF IsPresent(e.payload.review)
                     THEN e.payload.review[1].state ELSE ""]

Main ==
    /\ pc = "main"
    /\ input' = BuildInput(env)
    /\ pc' = "getPullRequest"
    /\ ioLog' = Append(ioLog, Call("getPullRequest", input'.pullRequestNumber))
    /\ UNCHANGED <<env, server, pr, commits, reviews, assignees, users,
                   filteredUsers, message, formatCalls, posted>>

-----------------------------------------------------------------------------
(* run: one action per await, each running the synchronous code up to the  *)
(* next await (or to the return).                                          *)

NeedsMorePages(pageInfo) == pageInfo.hasNextPage /\ IsPresent(pageInfo.endCursor)

\* mutant: the first page overwritten by the additional pages
AppendPages_DropFirst(first, additional) == additional

AppendPages(first, additional) == first \o additional

\* mutant: the early return removed
NothingToNotify_Never(f) == FALSE

NothingToNotify(f) == Len(f) = 0

\* steps 4-7: collect, filter, exit if empty, format and call postComment
CollectFilterPost(p, cs, rs, log) ==
    LET us == collectUsersToNotify(input, cs, rs, p.assignees.nodes)
        f == filterUsers(us, input.actor, input.machineUsers)
    IN  /\ commits' = cs
        /\ reviews' = rs
        /\ assignees' = p.assignees.nodes
        /\ users' = us
        /\ filteredUsers' = f
        /\ IF NothingToNotify(f)
           THEN /\ pc' = "done"
                /\ ioLog' = log
                /\ UNCHANGED <<message, formatCalls>>
           ELSE /\ message' = formatComment(f, input)
                /\ formatCalls' = formatCalls + 1
                /\ pc' = "postComment"
                /\ ioLog' = Append(log, Call("postComment", message'))

\* step 3: paginate reviews if needed
PaginateReviews(p, cs, log) ==
    IF NeedsMorePages(p.reviews.pageInfo)
    THEN /\ pc' = "listReviews"
         /\ commits' = cs
         /\ reviews' = p.reviews.nodes
         /\ ioLog' = Append(log, Call("listReviews", p.reviews.pageInfo.endCursor[1]))
         /\ UNCHANGED <<assignees, users, filteredUsers, message, formatCalls>>
    ELSE CollectFilterPost(p, cs, p.reviews.nodes, log)

\* step 2: paginate commits if needed
PaginateCommits(p, log) ==
    IF NeedsMorePages(p.commits.pageInfo)
    THEN /\ pc' = "listCommits"
         /\ commits' = p.commits.nodes
         /\ ioLog' = Append(log, Call("listCommits", p.commits.pageInfo.endCursor[1]))
         /\ UNCHANGED <<reviews, assignees, users, filteredUsers, message, formatCalls>>
    ELSE PaginateReviews(p, p.commits.nodes, log)

Abort(op) ==
    /\ pc' = "failed"
    /\ ioLog' = Append(ioLog, Rejected(op))
    /\ UNCHANGED <<env, server, input, pr, commits, reviews, assignees, users,
                   filteredUsers, message, formatCalls, posted>>

GetPullRequestResolves ==
    /\ pc = "getPullRequest"
    /\ LET prData == getPullRequest(server)
           p == prData.repository.pullRequest
       IN  /\ pr' = Some(p)
           /\ PaginateCommits(p, Append(ioLog, Resolved("getPullRequest")))
    /\ UNCHANGED <<env, server, input, posted>>

GetPullRequestRejects == pc = "getPullRequest" /\ Abort("getPullRequest")

ListCommitsResolves ==
    /\ pc = "listCommits"
    /\ LET additionalCommits == listCommits(server, pr[1].commits.pageInfo.endCursor[1])
       IN  PaginateReviews(pr[1], AppendPages(commits, additionalCommits),
                           Append(ioLog, Resolved("listCommits")))
    /\ UNCHANGED <<env, server, input, pr, posted>>

ListCommitsRejects == pc = "listCommits" /\ Abort("listCommits")

ListReviewsResolves ==
    /\ pc = "listReviews"
    /\ LET additionalReviews == listReviews(server, pr[1].reviews.pageInfo.endCursor[1])
       IN  CollectFilterPost(pr[1], commits, AppendPages(reviews, additionalReviews),
                             Append(ioLog, Resolved("listReviews")))
    /\ UNCHANGED <<env, server, input, pr, posted>>

\* mutant: the rejection caught and the run continued with the first page
ListReviewsRejects_Caught ==
    /\ pc = "listReviews"
    /\ CollectFilterPost(pr[1], commits, reviews, Append(ioLog, Rejected("listReviews")))
    /\ UNCHANGED <<env, server, input, pr, posted>>

ListReviewsRejects == pc = "listReviews" /\ Abort("listReviews")

PostCommentResolves ==
    /\ pc = "postComment"
    /\ posted' = Append(posted, message)
    /\ pc' = "done"
    /\ ioLog' = Append(ioLog, Resolved("postComment"))
    /\ UNCHANGED <<env, server, input, pr, commits, reviews, assignees, users,
                   filteredUsers, message, formatCalls>>

PostCommentRejects == pc = "postComment" /\ Abort("postComment")


-----------------------------------------------------------------------------
(* The pure functions applied on their own *)

CollectStep ==
    /\ pc = "collect"
    /\ users' = collectUsersToNotify(input, commits, reviews, assignees)
    /\ pc' = "collected"
    /\ UNCHANGED <<env, server, input, pr, commits, reviews, assignees,
                   filteredUsers, message, formatCalls, ioLog, posted>>

FilterStep ==
    /\ pc = "filter"
    /\ filteredUsers' = filterUsers(users, input.actor, input.machineUsers)
    /\ pc' = "filtered"
    /\ UNCHANGED <<env, server, input, pr, commits, reviews, assignees, users,
                   message, formatCalls, ioLog, posted>>

FormatStep ==
    /\ pc = "format"
    /\ message' = formatComment(filteredUsers, input)
    /\ pc' = "formatted"
    /\ UNCHANGED <<env, server, input, pr, commits, reviews, assignees, users,
                   filteredUsers, formatCalls, ioLog, posted>>

-----------------------------------------------------------------------------
(* Inputs *)

makeInput ==
    [githubToken |-> "", repositoryOwner |-> "owner", repositoryName |-> "repo",
     pullRequestNumber |-> 1, machineUsers |-> {}, actor |-> "actor",
     eventName |-> "pull_request", eventAction |-> "closed", prMerged |-> TRUE,
     reviewState |-> ""]

Event(name, action, pullRequest, review) ==
    [eventName |-> name,
     payload |-> [action |-> action, pull_request |-> pullRequest, review |-> review]]

PullRequestPayload(merged) == Some([number |-> 1, merged |-> merged])

RunEvents ==
    { Event("pull_request", Some("closed"), PullRequestPayload(Some(TRUE)), None),
      Event("pull_request", Some("closed"), PullRequestPayload(Some(FALSE)), None),
      Event("pull_request", Some("reopened"), PullRequestPayload(Some(FALSE)), None),
      Event("pull_request_review", Some("submitted"), PullRequestPayload(None),
            Some([state |-> "approved"])),
      Event("pull_request_review", Some("submitted"), PullRequestPayload(None),
            Some([state |-> "commented"])) }

MainEvents == RunEvents \cup {Event("workflow_dispatch", None, None, None)}

Env(lines, actor, event) ==
    [machine_users |-> lines, github_token |-> "token",
     repo |-> [owner |-> "owner", repo |-> "repo"],
     actor |-> actor, eventName |-> event.eventName, payload |-> event.payload]

NoEnv == Env(<<>>, "", Event("", None, None, None))
NoServer == [commits |-> <<>>, reviews |-> <<>>, assignees |-> <<>>]

RunCommits ==
    { PullRequestCommit(Some(User("alice")), <<>>),
      PullRequestCommit(Some(User("renovate[bot]")), <<Some(User("bob"))>>),
      PullRequestCommit(None, <<None>>) }
RunReviews == {Review("bob", "APPROVED"), Review("carol", "COMMENTED")}
RunAssignees == {User("carol"), User("ci-user")}
RunActors == {"alice", "bob"}
RunMachineUsers == {<<>>, <<"ci-user">>, <<"#carol", "ci-user">>}

CollectCommits ==
    { PullRequestCommit(c, a) :
        c \in {None, Some(User("alice"))},
        a \in {<<>>, <<None>>, <<Some(User("alice"))>>,
               <<Some(User("carol")), Some(User("bob"))>>} }
CollectReviews ==
    { Review(l, st) : l \in {"bob", "dave"},
                      st \in {"APPROVED", "approved", "CHANGES_REQUESTED"} }
CollectAssignees == {User("alice"), User("carol")}
CollectEventNames == {"pull_request", "pull_request_review", "pull_request_target"}
CollectEventActions == {"closed", "submitted"}

FilterLogins == {"alice", "bob", "renovate[bot]", "[bot]x", "bot", "ci-user"}
FilterActors == {"alice", "bob", "actor"}
FilterMachineUsers == SUBSET {"ci-user", "bob"}

FormatLogins == {"user1", "user2"}
FormatEventNames == {"pull_request", "pull_request_review", "issue_comment", "push"}
FormatEventActions == {"closed", "opened", "created", ""}
FormatReviewStates == {"approved", "changes_requested", "commented", "dismissed", ""}

MainLines == {"ci-user", "#ci-user", "alice", "#", "a#b", "# machine users"}

NoDuplicates(s) == \A i, j \in 1..Len(s) : s[i] = s[j] => i = j

-----------------------------------------------------------------------------
(* Specifications *)

\* main is about to run: the trigger, the machine_users input and the pull
\* request the API holds are arbitrary
\* (input is assigned by main; until then it holds the tests' default
\* input, which nothing reads)
Init ==
    /\ pc = "main"
    /\ \E nc \in 0..MaxPrRecords : \E cs \in [1..nc -> RunCommits] :
       \E nr \in 0..(MaxPrRecords - nc) : \E rs \in [1..nr -> RunReviews] :
       \E na \in 0..(MaxPrRecords - nc - nr) : \E as \in [1..na -> RunAssignees] :
          server = [commits |-> cs, reviews |-> rs, assignees |-> as]
    /\ \E lines \in RunMachineUsers, actor \in RunActors, event \in RunEvents :
          env = Env(lines, actor, event)
    /\ input = makeInput /\ pr = None
    /\ commits = <<>> /\ reviews = <<>> /\ assignees = <<>> /\ users = <<>>
    /\ filteredUsers = <<>> /\ message = "" /\ formatCalls = 0
    /\ ioLog = <<>> /\ posted = <<>>

Next ==
    \/ Main
    \/ GetPullRequestResolves
    \/ GetPullRequestRejects
    \/ ListCommitsResolves
    \/ ListCommitsRejects
    \/ ListReviewsResolves
    \/ ListReviewsRejects
    \/ PostCommentResolves
    \/ PostCommentRejects

Spec == Init /\ [][Next]_vars

InitMain ==
    /\ pc = "main"
    /\ \E lines \in SeqsUpTo(MainLines, MaxLines), event \in MainEvents :
          env = Env(lines, "alice", event)
    /\ server = NoServer /\ input = makeInput /\ pr = None
    /\ commits = <<>> /\ reviews = <<>> /\ assignees = <<>> /\ users = <<>>
    /\ filteredUsers = <<>> /\ message = "" /\ formatCalls = 0
    /\ ioLog = <<>> /\ posted = <<>>

SpecMain == InitMain /\ [][Main]_vars

InitCollect ==
    /\ pc = "collect"
    /\ \E nc \in 0..MaxRecords : \E cs \in [1..nc -> CollectCommits] :
       \E nr \in 0..(MaxRecords - nc) : \E rs \in [1..nr -> CollectReviews] :
       \E na \in 0..(MaxRecords - nc - nr) : \E as \in [1..na -> CollectAssignees] :
          commits = cs /\ reviews = rs /\ assignees = as
    /\ \E name \in CollectEventNames, action \in CollectEventActions :
          input = [makeInput EXCEPT !.eventName = name, !.eventAction = action]
    /\ env = NoEnv /\ server = NoServer /\ pr = None /\ users = <<>>
    /\ filteredUsers = <<>> /\ message = "" /\ formatCalls = 0
    /\ ioLog = <<>> /\ posted = <<>>

SpecCollect == InitCollect /\ [][CollectStep]_vars

InitFilter ==
    /\ pc = "filter"
    /\ \E us \in SeqsUpTo(FilterLogins, MaxUsers) : NoDuplicates(us) /\ users = us
    /\ \E actor \in FilterActors, machineUsers \in FilterMachineUsers :
          input = [makeInput EXCEPT !.actor = actor, !.machineUsers = machineUsers]
    /\ env = NoEnv /\ server = NoServer /\ pr = None
    /\ commits = <<>> /\ reviews = <<>> /\ assignees = <<>>
    /\ filteredUsers = <<>> /\ message = "" /\ formatCalls = 0
    /\ ioLog = <<>> /\ posted = <<>>

SpecFilter == InitFilter /\ [][FilterStep]_vars

InitFormat ==
    /\ pc = "format"
    /\ \E us \in SeqsUpTo(FormatLogins, MaxUsers) : us # <<>> /\ filteredUsers = us
    /\ \E name \in FormatEventNames, action \in FormatEventActions,
          merged \in BOOLEAN, state \in FormatReviewStates :
          input = [makeInput EXCEPT !.eventName = name, !.eventAction = action,
                                    !.prMerged = merged, !.reviewState = state]
    /\ env = NoEnv /\ server = NoServer /\ pr = None
    /\ commits = <<>> /\ reviews = <<>> /\ assignees = <<>> /\ users = <<>>
    /\ message = "" /\ formatCalls = 0 /\ ioLog = <<>> /\ posted = <<>>

SpecFormat == InitFormat /\ [][FormatStep]_vars


-----------------------------------------------------------------------------
(* Vocabulary of the properties *)

CommitLogins(cs) ==
    UNION { {cs[i].commit.committer.user[j].login :
                j \in 1..Len(cs[i].commit.committer.user)}
            \cup
            UNION { {cs[i].commit.authors.nodes[k].user[j].login :
                        j \in 1..Len(cs[i].commit.authors.nodes[k].user)} :
                    k \in 1..Len(cs[i].commit.authors.nodes) } :
            i \in 1..Len(cs) }

ApprovedLogins(rs) == {rs[i].author.login : i \in {j \in 1..Len(rs) : rs[j].state = "APPROVED"}}
ReviewLogins(rs) == {rs[i].author.login : i \in 1..Len(rs)}
AssigneeLogins(as) == {as[i].login : i \in 1..Len(as)}

ClosedPullRequest(in) == in.eventName = "pull_request" /\ in.eventAction = "closed"

Reorderings(n) == {f \in [1..n -> 1..n] : \A i, j \in 1..n : f[i] = f[j] => i = j}
Permuted(s, f) == [i \in 1..Len(s) |-> s[f[i]]]

IndexOf(s, x) == CHOOSE i \in 1..Len(s) : s[i] = x

CalledOps == [i \in {j \in 1..Len(ioLog) : ioLog[j].ev = "call"} |-> ioLog[i].op]
WasCalled(op) == \E i \in 1..Len(ioLog) : ioLog[i].ev = "call" /\ ioLog[i].op = op
FetchOps == {"getPullRequest", "listCommits", "listReviews"}
Rank(op) ==
    CASE op = "getPullRequest" -> 1
      [] op = "listCommits" -> 2
      [] op = "listReviews" -> 3
      [] op = "postComment" -> 4

\* the Collector has been handed its lists
Handed ==
    \/ pc \in {"done", "postComment"}
    \/ pc = "failed" /\ ioLog[Len(ioLog)].op = "postComment"

\* the mentions a comment starts with: its leading space-separated words
\* that begin with "@", without the "@"
WordEnd(t) ==
    LET spaces == {i \in 1..Len(t) : SubSeq(t, i, i) = " "}
    IN  IF spaces = {} THEN Len(t) + 1
        ELSE CHOOSE i \in spaces : \A j \in spaces : i <= j

RECURSIVE MentionsOf(_)
MentionsOf(t) ==
    IF Len(t) > 0 /\ SubSeq(t, 1, 1) = "@"
    THEN <<SubSeq(t, 2, WordEnd(t) - 1)>> \o MentionsOf(SubSeq(t, WordEnd(t) + 1, Len(t)))
    ELSE <<>>

RECURSIVE MentionPrefix(_)
MentionPrefix(us) ==
    IF Len(us) = 1 THEN "@" \o us[1]
    ELSE MentionPrefix(SubSeq(us, 1, Len(us) - 1)) \o " @" \o us[Len(us)]

-----------------------------------------------------------------------------
(* C1: review authors enter the result only under eventName = "pull_request" *)
(* and eventAction = "closed", and then only for reviews whose state is      *)
(* exactly "APPROVED": under the gate every APPROVED review's author is in   *)
(* the result; a username that occurs only as a review author, and not as    *)
(* the author of a gated APPROVED review, is never in the result.            *)
C1_ApproversGated ==
    pc = "collected" =>
        /\ ClosedPullRequest(input) =>
              \A i \in 1..Len(reviews) :
                 reviews[i].state = "APPROVED" => reviews[i].author.login \in Range(users)
        /\ \A u \in ReviewLogins(reviews) \ (CommitLogins(commits) \cup AssigneeLogins(assignees)) :
              (~ClosedPullRequest(input) \/ u \notin ApprovedLogins(reviews))
                 => u \notin Range(users)

C1_Witness ==
    /\ pc = "collected"
    /\ ClosedPullRequest(input)
    /\ reviews = <<Review("dave", "APPROVED"), Review("bob", "approved")>>
    /\ users = <<"dave">>

C2_FilterExact ==
    pc = "filtered" =>
        /\ Range(filteredUsers) =
              {u \in Range(users) : /\ u # input.actor
                                    /\ ~Includes(u, "[bot]")
                                    /\ u \notin input.machineUsers}
        /\ NoDuplicates(filteredUsers)
        /\ \A i, j \in 1..Len(filteredUsers) :
              i < j => IndexOf(users, filteredUsers[i]) < IndexOf(users, filteredUsers[j])
        /\ users = <<>> => filteredUsers = <<>>

C2_Witness ==
    /\ pc = "filtered"
    /\ users = <<"bot", "[bot]x", "alice">>
    /\ input.actor = "bob"
    /\ filteredUsers = <<"bot", "alice">>

(* C3: for pull_request and pull_request_review the comment is the         *)
(* mentions ("@" and the username, joined by single spaces, in list order),*)
(* one space and the sentence of the table, the merged check taking        *)
(* precedence over the closed check.                                       *)
C3_SentenceTable ==
    (pc = "formatted" /\ filteredUsers # <<>>) =>
        LET prefix == MentionPrefix(filteredUsers) \o " "
        IN  /\ (input.eventName = "pull_request" /\ input.prMerged)
                  => message = prefix \o "Merged the pull request."
            /\ (input.eventName = "pull_request" /\ ~input.prMerged
                  /\ input.eventAction = "closed")
                  => message = prefix \o "Closed the pull request."
            /\ (input.eventName = "pull_request" /\ ~input.prMerged
                  /\ input.eventAction # "closed")
                  => message = prefix \o "Pull request " \o input.eventAction \o "."
            /\ (input.eventName = "pull_request_review" /\ input.reviewState = "approved")
                  => message = prefix \o "The pull request was approved."
            /\ (input.eventName = "pull_request_review"
                  /\ input.reviewState = "changes_requested")
                  => message = prefix \o "Changes were requested."
            /\ (input.eventName = "pull_request_review" /\ input.reviewState = "commented")
                  => message = prefix \o "A comment was left on the pull request."
            /\ (input.eventName = "pull_request_review"
                  /\ input.reviewState \notin {"approved", "changes_requested", "commented"})
                  => message = prefix \o "A review was submitted."

C3_Witness ==
    /\ pc = "formatted"
    /\ filteredUsers = <<"user1", "user2">>
    /\ input.eventName = "pull_request" /\ input.eventAction = "closed" /\ input.prMerged
    /\ message = "@user1 @user2 Merged the pull request."

(* C4: for every other eventName the sentence is                           *)
(* "Event: {eventName}/{eventAction}." with the terminating period, after  *)
(* the mentions and a single space.                                        *)
C4_DefaultSentence ==
    (pc = "formatted" /\ filteredUsers # <<>>
       /\ input.eventName \notin {"pull_request", "pull_request_review"}) =>
        message = MentionPrefix(filteredUsers) \o " " \o "Event: " \o input.eventName
                  \o "/" \o input.eventAction \o "."

(* C7: machineUsers holds exactly the lines of machine_users that do not   *)
(* start with "#"; a line starting with "#" is no member and excludes      *)
(* nobody.                                                                 *)
C7_CommentLines ==
    pc # "main" =>
        LET lines == Range(env.machine_users)
        IN  /\ input.machineUsers = {l \in lines : l = "" \/ SubSeq(l, 1, 1) # "#"}
            /\ \A l \in lines :
                  (l # "" /\ SubSeq(l, 1, 1) = "#")
                     => filterUsers(<<l>>, input.actor, input.machineUsers) = <<l>>

C7_Witness ==
    /\ pc # "main"
    /\ env.machine_users = <<"#ci-user", "a#b">>
    /\ input.machineUsers = {"a#b"}

(* C5: while the filtered list is empty formatComment is not invoked and   *)
(* postComment is not called, and once the filter has returned an empty    *)
(* list the run has ended; postComment is called only with a non-empty     *)
(* filtered list.                                                          *)
C5_NothingToPost ==
    /\ filteredUsers = <<>> =>
          /\ formatCalls = 0
          /\ ~WasCalled("postComment")
          /\ posted = <<>>
          /\ pc \notin {"postComment"}
    /\ (Handed /\ filteredUsers = <<>>) => pc = "done"
    /\ (WasCalled("postComment") \/ posted # <<>>) => (filteredUsers # <<>> /\ formatCalls = 1)

C5_Witness ==
    /\ pc = "done"
    /\ users # <<>>
    /\ filteredUsers = <<>>
    /\ ~WasCalled("postComment")

(* C8: the I/O steps of a run are, in this order, getPullRequest, then     *)
(* (optionally) listCommits, then (optionally) listReviews, then           *)
(* postComment; each is made at most once and has returned before the next *)
(* is made; at most one comment is posted; after a failed fetch the run    *)
(* has aborted and no comment is posted.                                   *)
C8_IoOrder ==
    /\ ioLog # <<>> => ioLog[1] = Call("getPullRequest", input.pullRequestNumber)
    /\ \A i \in 1..Len(ioLog) :
          IF ioLog[i].ev = "call"
          THEN /\ i < Len(ioLog) =>
                     (ioLog[i + 1].ev \in {"ok", "fail"} /\ ioLog[i + 1].op = ioLog[i].op)
               /\ \A j \in 1..(i - 1) :
                     ioLog[j].ev = "call" => Rank(ioLog[j].op) < Rank(ioLog[i].op)
          ELSE /\ i > 1
               /\ ioLog[i - 1].ev = "call"
               /\ ioLog[i - 1].op = ioLog[i].op
    /\ Len(posted) <= 1
    /\ posted # <<>> => Resolved("postComment") \in Range(ioLog)
    /\ \A i \in 1..Len(ioLog) :
          (ioLog[i].ev = "fail" /\ ioLog[i].op \in FetchOps) =>
              /\ i = Len(ioLog)
              /\ pc = "failed"
              /\ posted = <<>>
              /\ ~WasCalled("postComment")

C8_Witness ==
    /\ pc = "done"
    /\ Len(posted) = 1
    /\ [i \in 1..Len(ioLog) |-> ioLog[i].op] =
          <<"getPullRequest", "getPullRequest", "listCommits", "listCommits",
            "listReviews", "listReviews", "postComment", "postComment">>

(* C9: further pages of commits (reviews) are fetched exactly when the     *)
(* first page reports more pages, from that page's cursor; the Collector   *)
(* is handed the records of every page, the first page's first, and        *)
(* exactly the first page's records when it reports no further page.       *)
C9_FullyPaginated ==
    pr # None =>
        LET p == pr[1]
        IN  /\ WasCalled("listCommits") <=> p.commits.pageInfo.hasNextPage
            /\ WasCalled("listCommits") =>
                  Call("listCommits", p.commits.pageInfo.endCursor[1]) \in Range(ioLog)
            /\ WasCalled("listReviews") =>
                  /\ p.reviews.pageInfo.hasNextPage
                  /\ Call("listReviews", p.reviews.pageInfo.endCursor[1]) \in Range(ioLog)
            /\ Handed =>
                  /\ WasCalled("listReviews") <=> p.reviews.pageInfo.hasNextPage
                  /\ commits = server.commits
                  /\ reviews = server.reviews
                  /\ SubSeq(commits, 1, Len(p.commits.nodes)) = p.commits.nodes
                  /\ SubSeq(reviews, 1, Len(p.reviews.nodes)) = p.reviews.nodes
                  /\ ~p.commits.pageInfo.hasNextPage => commits = p.commits.nodes
                  /\ ~p.reviews.pageInfo.hasNextPage => reviews = p.reviews.nodes
                  /\ assignees = server.assignees

C9_Witness ==
    /\ Handed
    /\ WasCalled("listCommits") /\ WasCalled("listReviews")
    /\ Len(commits) > Len(pr[1].commits.nodes)
    /\ Len(reviews) > Len(pr[1].reviews.nodes)

(* C10: a posted comment is formatComment(filterUsers(collectUsersToNotify *)
(* (...))) of the fetched data: its mentions are pairwise distinct, each   *)
(* occurs in the commits, the gated approved reviews or the assignees, and *)
(* none is the actor, contains "[bot]" or is a configured machine user.    *)
C10_PostedComment ==
    \A n \in 1..Len(posted) :
        LET text == posted[n]
            mentioned == MentionsOf(text)
        IN  /\ text = formatComment(
                         filterUsers(collectUsersToNotify(input, commits, reviews, assignees),
                                     input.actor, input.machineUsers),
                         input)
            /\ mentioned # <<>>
            /\ NoDuplicates(mentioned)
            /\ \A i \in 1..Len(mentioned) :
                  /\ mentioned[i] \in CommitLogins(commits)
                        \cup (IF ClosedPullRequest(input) THEN ApprovedLogins(reviews) ELSE {})
                        \cup AssigneeLogins(assignees)
                  /\ mentioned[i] # env.actor
                  /\ ~Includes(mentioned[i], "[bot]")
                  /\ mentioned[i] \notin {l \in Range(env.machine_users) : ~StartsWith(l, "#")}

C10_Witness ==
    /\ server = [commits |-> <<PullRequestCommit(Some(User("alice")), <<>>)>>,
                 reviews |-> <<Review("bob", "APPROVED")>>,
                 assignees |-> <<User("carol")>>]
    /\ env.actor = "alice"
    /\ input.eventName = "pull_request" /\ input.eventAction = "closed" /\ input.prMerged
    /\ posted = <<"@bob @carol Merged the pull request.">>


====
